---- MODULE Spec2Model ----
(***************************************************************************)
(* A model of the Safe smart-account adapter of permissionless.js          *)
(* (src/src/accounts/privateKeyToSafeSmartAccount.ts), of the smart        *)
(* account client and of the gas-estimation error (sections at the end).   *)
(*                                                                         *)
(* Hex strings are modelled by the sequence of their hex digits after the  *)
(* "0x" prefix (each digit a number 0..15).  Hashes and ABI encodings are  *)
(* modelled as injective constructors (records and tuples of their         *)
(* arguments): two encodings are equal exactly when their inputs are.      *)
(***************************************************************************)
EXTENDS Integers, Sequences, FiniteSets, TLC

VARIABLES
    norm,       \* one run of adjustVInSignature: its arguments and its outcome
    ctor,       \* the running or finished call of privateKeyToSafeSmartAccount
    prev,       \* the adapter an earlier call of privateKeyToSafeSmartAccount returned
    bytecode,   \* chain: what a bytecode read at the account address answers now
    nonce,      \* chain: the entry point's nonce of the account now
    calls,      \* the adapter's method calls in flight, each awaiting its response
    last,       \* the method call that completed last
    issued,     \* whether getInitCode has already returned a nonempty InitCode
    client,     \* the running or finished call of createSmartAccountClient
    gasError    \* one construction of EstimateUserOperationGasError: its arguments and the error

vars == <<norm, ctor, prev, bytecode, nonce, calls, last, issued, client, gasError>>

adapterVars == <<ctor, prev, bytecode, nonce, calls, last, issued>>

-----------------------------------------------------------------------------
(* Bounds *)

\* largest retry count a caller or the underlying client asks for
MaxRetryCount == 3

\* most meta messages an upstream error carries
MaxMetaMessages == 2

\* longest signature string handed to the normalizer, in hex digits after "0x"
MaxSigLen == 3

\* most method calls of one adapter in flight at once
MaxCalls == 2

\* the chain's nonce of the account runs over 0..MaxNonce
MaxNonce == 1

-----------------------------------------------------------------------------
(* Hex strings *)

HexDigit == 0..15

HexStrings(n) == UNION {[1..k -> HexDigit] : k \in 0..n}

\* what parseInt(s, 16) gives for a string that holds no hex number
NaN == -1

\* parseInt(signature.slice(-2), 16): the slice is the last two characters of
\* the whole string, "0x" included.  With two or more digits it is the last two
\* digits; with one digit it is "x" and the digit, with none it is "0x", and
\* parseInt finds no number in either.
ParseLastByte(signature) ==
    LET n == Len(signature)
    IN  IF n >= 2 THEN 16 * signature[n - 1] + signature[n] ELSE NaN

\* Number.prototype.toString(16) of a number 0..255: no leading zero
ToString16(v) ==
    IF v < 16 THEN <<v>> ELSE <<v \div 16, v % 16>>

\* signature.slice(0, -2), as digits after "0x" (the strings that get here
\* have two digits or more)
SliceOffLastByte(signature) ==
    SubSeq(signature, 1, Len(signature) - 2)

-----------------------------------------------------------------------------
(* adjustVInSignature *)

SigningMethods == {"eth_sign", "eth_signTypedData"}

ETHEREUM_V_VALUES_Without28 == {0, 1, 27}

ETHEREUM_V_VALUES == {0, 1, 27, 28}

MIN_VALID_V_VALUE_FOR_SAFE_ECDSA == 27

Thrown(message) == [ok |-> FALSE, error |-> message, value |-> <<>>]

Returned(v) == [ok |-> TRUE, error |-> "", value |-> v]

\* the bug of leaving out the EIP-191 offset and the lift of v = 0/1
adjustVInSignature_NoAdjust(signingMethod, signature) ==
    LET signatureV == ParseLastByte(signature)
    IN  IF signatureV \notin ETHEREUM_V_VALUES
        THEN Thrown("Invalid signature")
        ELSE Returned(SliceOffLastByte(signature) \o ToString16(signatureV))

adjustVInSignature(signingMethod, signature) ==
    LET signatureV == ParseLastByte(signature)
        lifted == IF signatureV < MIN_VALID_V_VALUE_FOR_SAFE_ECDSA
                  THEN signatureV + MIN_VALID_V_VALUE_FOR_SAFE_ECDSA
                  ELSE signatureV
        adjusted == CASE signingMethod = "eth_sign" -> lifted + 4
                      [] signingMethod = "eth_signTypedData" -> lifted
                      [] OTHER -> signatureV
    IN  IF signatureV \notin ETHEREUM_V_VALUES
        THEN Thrown("Invalid signature")
        ELSE Returned(SliceOffLastByte(signature) \o ToString16(adjusted))

NotRun == [ok |-> FALSE, error |-> "not run", value |-> <<>>]

-----------------------------------------------------------------------------
(* Addresses, the per-network table and the encodings of viem *)

Address(hex) == [addr |-> hex]

\* an optional argument the caller left out
Undefined == [undefined |-> TRUE]

zeroAddress == Address("0x0000000000000000000000000000000000000000")

SafeVersions == {"1.4.1"}

\* Number.prototype.toString() of a chain id: its decimal digits
RECURSIVE ToString10(_)
ToString10(n) ==
    IF n < 10 THEN <<n>> ELSE ToString10(n \div 10) \o <<n % 10>>

SepoliaKey == <<1, 1, 1, 5, 5, 1, 1, 1>>

GoerliKey == <<5>>

SafeAddresses ==
    [ADD_MODULES_LIB_ADDRESS |-> Address("0x191EFDC03615B575922289DC339F4c70aC5C30Af"),
     SAFE_4337_MODULE_ADDRESS |-> Address("0x39E54Bb2b3Aa444b4B39DEe15De3b7809c36Fc38"),
     SAFE_PROXY_FACTORY_ADDRESS |-> Address("0x4e1DCf7AD4e460CfD30791CCC4F9c8a4f820ec67"),
     SAFE_SINGLETON_ADDRESS |-> Address("0x41675C099F32341bf84BFc5382aF534df5C7461a")]

\* SAFE_ADDRESSES_MAP[safeVersion][chainIdString]; Undefined when there is no entry
SAFE_ADDRESSES_MAP(safeVersion, chainIdString) ==
    IF safeVersion = "1.4.1" /\ chainIdString \in {SepoliaKey, GoerliKey}
    THEN SafeAddresses
    ELSE Undefined

\* override ?? SAFE_ADDRESSES_MAP[safeVersion][chainIdString][field], with the
\* table taking precedence: the bug of the operands swapped
ResolveAddress_TableFirst(override, safeVersion, chainIdString, field) ==
    IF SAFE_ADDRESSES_MAP(safeVersion, chainIdString) # Undefined
    THEN SAFE_ADDRESSES_MAP(safeVersion, chainIdString)[field]
    ELSE override

\* override ?? SAFE_ADDRESSES_MAP[safeVersion][chainIdString][field]: the table
\* is read only when the override is missing.  Undefined stands for the
\* TypeError of reading a field of a missing entry.
ResolveAddress(override, safeVersion, chainIdString, field) ==
    IF override # Undefined
    THEN override
    ELSE IF SAFE_ADDRESSES_MAP(safeVersion, chainIdString) # Undefined
         THEN SAFE_ADDRESSES_MAP(safeVersion, chainIdString)[field]
         ELSE Undefined

EncodeFunctionData(functionName, args) == [functionName |-> functionName, args |-> args]

EncodePacked(values) == [packed |-> values]

Keccak256(bytes) == [keccak256 |-> bytes]

HexToBigInt(address) == [uint256 |-> address]

ConcatHex(parts) == parts

\* getContractAddress({from, salt, bytecode, opcode: "CREATE2"})
GetContractAddress(from, salt, deploymentCode) ==
    [create2From |-> from, salt |-> salt, bytecode |-> deploymentCode]

\* a saltNonce parameter with the default 0n
UndefinedSalt == -1

DefaultSalt(saltNonce) == IF saltNonce = UndefinedSalt THEN 0 ELSE saltNonce

getInitializerCode(owner, addModuleLibAddress, safe4337ModuleAddress) ==
    EncodeFunctionData("setup",
        << <<owner>>,
           1,
           addModuleLibAddress,
           EncodeFunctionData("enableModules", << <<safe4337ModuleAddress>> >>),
           safe4337ModuleAddress,
           zeroAddress,
           0,
           zeroAddress >>)

\* the bug of building the InitCode without the caller's saltNonce
getAccountInitCode_DefaultSalt(owner, addModuleLibAddress, safe4337ModuleAddress, safeProxyFactoryAddress, safeSingletonAddress, saltNonce) ==
    Returned(ConcatHex(<<safeProxyFactoryAddress,
        EncodeFunctionData("createProxyWithNonce",
            <<safeSingletonAddress,
              getInitializerCode(owner, addModuleLibAddress, safe4337ModuleAddress),
              0>>)>>))

getAccountInitCode(owner, addModuleLibAddress, safe4337ModuleAddress, safeProxyFactoryAddress, safeSingletonAddress, saltNonce) ==
    IF owner = Undefined
    THEN Thrown("Owner account not found")
    ELSE LET initializer == getInitializerCode(owner, addModuleLibAddress,
                                               safe4337ModuleAddress)
             initCodeCallData ==
                 EncodeFunctionData("createProxyWithNonce",
                     <<safeSingletonAddress, initializer, DefaultSalt(saltNonce)>>)
         IN  Returned(ConcatHex(<<safeProxyFactoryAddress, initCodeCallData>>))

\* steps 2 to 5 of the derivation: the CREATE2 address of the proxy
Create2ProxyAddress(proxyCreationCode, safeProxyFactoryAddress, safeSingletonAddress, initializer, saltNonce) ==
    LET deploymentCode ==
            EncodePacked(<<proxyCreationCode, HexToBigInt(safeSingletonAddress)>>)
        salt == Keccak256(EncodePacked(
                    <<Keccak256(EncodePacked(<<initializer>>)), saltNonce>>))
    IN  GetContractAddress(safeProxyFactoryAddress, salt, deploymentCode)

\* getAccountAddress once readContract has answered proxyCreationCode
getAccountAddress(proxyCreationCode, owner, addModuleLibAddress, safe4337ModuleAddress, safeProxyFactoryAddress, safeSingletonAddress, saltNonce) ==
    Create2ProxyAddress(proxyCreationCode, safeProxyFactoryAddress, safeSingletonAddress,
        getInitializerCode(owner, addModuleLibAddress, safe4337ModuleAddress),
        DefaultSalt(saltNonce))

-----------------------------------------------------------------------------
(* privateKeyToSafeSmartAccount: the inputs *)

PrivateKeys == {"0xkey1", "0xkey2"}

\* privateKeyToAccount(privateKey).address
PrivateKeyToAddress(privateKey) ==
    IF privateKey = "0xkey1" THEN Address("0xAAA") ELSE Address("0xBBB")

EntryPoints == {Address("0x5FF137D4b0FDCD49DcA30c7CF57E578a026d2789"),
                Address("0x0000000071727De22E5E9d8BAf0edAc6f37da032")}

\* the chain ids a client may answer: the two of the table and one without entry
ChainIds == {5, 11155111, 1}

ProxyCreationCodes == {"0x608060405234", "0x608060405260"}

SaltNonces == {UndefinedSalt, 1}

\* an override is left out or names a contract other than the table's
Overrides(hex) == {Undefined, Address(hex)}

Clients(chainIds, codes) == [chainId : chainIds, proxyCreationCode : codes]

Parameters(keys, entryPoints, salts) ==
    [privateKey : keys,
     safeVersion : SafeVersions,
     entryPoint : entryPoints,
     addModuleLibAddress : Overrides("0xL1B"),
     safe4337ModuleAddress : Overrides("0xM0D"),
     safeProxyFactoryAddress : Overrides("0xFAC"),
     safeSingletonAddress : Overrides("0x51N"),
     saltNonce : salts]

NoParameters == [none |-> TRUE]

NoClient == [none |-> TRUE]

NoAdapter == [none |-> TRUE]

\* the state of privateKeyToSafeSmartAccount before it is called
CtorIdle ==
    [pc |-> "idle", client |-> NoClient, params |-> NoParameters, io |-> <<>>,
     error |-> "", account |-> NoAdapter]

\* whether the four lookups of lines 405-417 find what they need
Resolvable(params, chainIdString) ==
    \A f \in {<<"addModuleLibAddress", "ADD_MODULES_LIB_ADDRESS">>,
              <<"safe4337ModuleAddress", "SAFE_4337_MODULE_ADDRESS">>,
              <<"safeProxyFactoryAddress", "SAFE_PROXY_FACTORY_ADDRESS">>,
              <<"safeSingletonAddress", "SAFE_SINGLETON_ADDRESS">>} :
        ResolveAddress(params[f[1]], params.safeVersion, chainIdString, f[2]) # Undefined

\* the values the closure of the returned account holds (lines 400-417)
Resolved(params, chainId) ==
    LET chainIdString == ToString10(chainId)
    IN  [owner |-> PrivateKeyToAddress(params.privateKey),
         chainId |-> chainId,
         entryPoint |-> params.entryPoint,
         addModuleLibAddress |->
             ResolveAddress(params.addModuleLibAddress, params.safeVersion,
                            chainIdString, "ADD_MODULES_LIB_ADDRESS"),
         safe4337ModuleAddress |->
             ResolveAddress(params.safe4337ModuleAddress, params.safeVersion,
                            chainIdString, "SAFE_4337_MODULE_ADDRESS"),
         safeProxyFactoryAddress |->
             ResolveAddress(params.safeProxyFactoryAddress, params.safeVersion,
                            chainIdString, "SAFE_PROXY_FACTORY_ADDRESS"),
         safeSingletonAddress |->
             ResolveAddress(params.safeSingletonAddress, params.safeVersion,
                            chainIdString, "SAFE_SINGLETON_ADDRESS"),
         saltNonce |-> DefaultSalt(params.saltNonce),
         address |-> Undefined]

\* privateKeyToSafeSmartAccount is called: it turns the key into the owner
\* account and asks the client for the chain id
CtorCall(clients, parameters) ==
    /\ ctor.pc = "idle"
    /\ \E c \in clients, p \in parameters :
        ctor' = [ctor EXCEPT !.pc = "getChainId", !.client = c, !.params = p,
                             !.io = <<"getChainId">>]
    /\ UNCHANGED <<client, gasError, norm, prev, bytecode, nonce, calls, last, issued>>

\* the bug of asking for proxyCreationCode before the addresses are resolved
CtorResolve_ReadsFirst ==
    /\ ctor.pc = "getChainId"
    /\ LET chainId == ctor.client.chainId
           io == Append(ctor.io, "readContract proxyCreationCode")
       IN  IF Resolvable(ctor.params, ToString10(chainId))
           THEN ctor' = [ctor EXCEPT !.pc = "readContract",
                                     !.account = Resolved(ctor.params, chainId),
                                     !.io = io]
           ELSE ctor' = [ctor EXCEPT !.pc = "failed", !.error = "TypeError", !.io = io]
    /\ UNCHANGED <<client, gasError, norm, prev, bytecode, nonce, calls, last, issued>>

\* getChainId answers: the four addresses are resolved; a lookup in a missing
\* table entry throws, otherwise getAccountAddress asks for proxyCreationCode
CtorResolve ==
    /\ ctor.pc = "getChainId"
    /\ LET chainId == ctor.client.chainId
       IN  IF Resolvable(ctor.params, ToString10(chainId))
           THEN ctor' = [ctor EXCEPT !.pc = "readContract",
                                     !.account = Resolved(ctor.params, chainId),
                                     !.io = Append(ctor.io, "readContract proxyCreationCode")]
           ELSE ctor' = [ctor EXCEPT !.pc = "failed", !.error = "TypeError"]
    /\ UNCHANGED <<client, gasError, norm, prev, bytecode, nonce, calls, last, issued>>

\* the bug of an address that also depends on the entry point
CtorReturn_EntryPointInAddress ==
    /\ ctor.pc = "readContract"
    /\ LET a == ctor.account
           accountAddress ==
               getAccountAddress(<<ctor.client.proxyCreationCode, a.entryPoint>>,
                   a.owner, a.addModuleLibAddress, a.safe4337ModuleAddress,
                   a.safeProxyFactoryAddress, a.safeSingletonAddress, a.saltNonce)
       IN  ctor' = [ctor EXCEPT !.pc = "ready", !.account.address = accountAddress]
    /\ UNCHANGED <<client, gasError, norm, prev, bytecode, nonce, calls, last, issued>>

\* readContract answers: the address is derived and the account returned
CtorReturn ==
    /\ ctor.pc = "readContract"
    /\ LET a == ctor.account
           accountAddress ==
               getAccountAddress(ctor.client.proxyCreationCode,
                   a.owner, a.addModuleLibAddress, a.safe4337ModuleAddress,
                   a.safeProxyFactoryAddress, a.safeSingletonAddress, a.saltNonce)
       IN  ctor' = [ctor EXCEPT !.pc = "ready", !.account.address = accountAddress]
    /\ UNCHANGED <<client, gasError, norm, prev, bytecode, nonce, calls, last, issued>>

\* what address derivation reads of a finished construction, and its result
Derivation(c) ==
    [proxyCreationCode |-> c.client.proxyCreationCode,
     owner |-> c.account.owner,
     addModuleLibAddress |-> c.account.addModuleLibAddress,
     safe4337ModuleAddress |-> c.account.safe4337ModuleAddress,
     safeProxyFactoryAddress |-> c.account.safeProxyFactoryAddress,
     safeSingletonAddress |-> c.account.safeSingletonAddress,
     saltNonce |-> c.account.saltNonce,
     address |-> c.account.address]

\* the caller keeps the adapter it got and calls privateKeyToSafeSmartAccount
\* anew; prev remembers the derivation of the adapter kept
CtorAgain ==
    /\ ctor.pc \in {"ready", "failed"}
    /\ prev' = IF ctor.pc = "ready" THEN Derivation(ctor) ELSE prev
    /\ ctor' = CtorIdle
    /\ UNCHANGED <<client, gasError, norm, bytecode, nonce, calls, last, issued>>

-----------------------------------------------------------------------------
(* The methods of the returned account *)

NormIdle == [method |-> "eth_sign", signature |-> <<>>, done |-> TRUE, out |-> NotRun]

NoCall == [op |-> "none"]

\* no call of createSmartAccountClient yet
ClientIdle == [pc |-> "idle"]

\* an optional value: one that is absent, one that is present
Absent == [present |-> FALSE, value |-> <<>>]

Present(value) == [present |-> TRUE, value |-> value]

\* no documentation path
NoDocsPath == [present |-> FALSE, value |-> ""]

NoError == [name |-> "none"]

\* no construction of EstimateUserOperationGasError under way
GasErrorIdle ==
    [cause |-> NoError, userOperation |-> NoError, entryPoint |-> zeroAddress,
     docsPath |-> NoDocsPath, done |-> TRUE, error |-> NoError]

CallsIdle == [c \in 1..MaxCalls |-> NoCall]

EIP712_SAFE_OPERATION_TYPE ==
    [SafeOp |-> << [type |-> "address", name |-> "safe"],
                   [type |-> "bytes", name |-> "callData"],
                   [type |-> "uint256", name |-> "nonce"],
                   [type |-> "uint256", name |-> "preVerificationGas"],
                   [type |-> "uint256", name |-> "verificationGasLimit"],
                   [type |-> "uint256", name |-> "callGasLimit"],
                   [type |-> "uint256", name |-> "maxFeePerGas"],
                   [type |-> "uint256", name |-> "maxPriorityFeePerGas"],
                   [type |-> "address", name |-> "entryPoint"] >>]

SafeMessageTypes == [SafeMessage |-> << [name |-> "message", type |-> "bytes"] >>]

HashMessage(message) == [hashMessage |-> message]

HashTypedData(typedData) == [hashTypedData |-> typedData]

ToBytes(hex) == [bytes |-> hex]

\* what callers sign: a string, raw bytes, or a typed-data definition
SignableMessages == {[kind |-> "string", value |-> "hello"],
                     [kind |-> "raw", value |-> "0x68656c6c6f"]}

TypedDataDefinitions == {[kind |-> "typedData", primaryType |-> "Mail",
                          message |-> "contents"]}

UserOperations ==
    {[sender |-> Address("0xAAA"), nonce |-> n, initCode |-> "0x", callData |-> cd,
      callGasLimit |-> 100, verificationGasLimit |-> 200, preVerificationGas |-> 300,
      maxFeePerGas |-> 7, maxPriorityFeePerGas |-> 2, paymasterAndData |-> "0x",
      signature |-> "0x"] : n \in {0}, cd \in {"0xa9059cbb", "0x"}}

\* the arguments callers hand to signTransaction and encodeDeployCallData
AnyArguments == {Undefined, [to |-> Address("0xBBB"), value |-> 1]}

generateSafeMessageMessage(message) ==
    IF message.kind = "string" \/ message.kind = "raw"
    THEN HashMessage(message)
    ELSE HashTypedData(message)

\* the typed data both signMessage and signTypedData wrap their argument in
SafeMessageTypedData(account, message) ==
    [domain |-> [chainId |-> account.chainId, verifyingContract |-> account.address],
     types |-> SafeMessageTypes,
     primaryType |-> "SafeMessage",
     message |-> [message |-> generateSafeMessageMessage(message)]]

\* the bug of one domain for everything: the user operation is signed under
\* the account's own address, as messages are
SafeOpTypedData_AccountDomain(account, userOperation) ==
    [domain |-> [chainId |-> account.chainId,
                 verifyingContract |-> account.address],
     types |-> EIP712_SAFE_OPERATION_TYPE,
     primaryType |-> "SafeOp",
     message |-> [safe |-> account.address,
                  callData |-> userOperation.callData,
                  nonce |-> userOperation.nonce,
                  preVerificationGas |-> userOperation.preVerificationGas,
                  verificationGasLimit |-> userOperation.verificationGasLimit,
                  callGasLimit |-> userOperation.callGasLimit,
                  maxFeePerGas |-> userOperation.maxFeePerGas,
                  maxPriorityFeePerGas |-> userOperation.maxPriorityFeePerGas,
                  entryPoint |-> account.entryPoint]]

SafeOpTypedData(account, userOperation) ==
    [domain |-> [chainId |-> account.chainId,
                 verifyingContract |-> account.safe4337ModuleAddress],
     types |-> EIP712_SAFE_OPERATION_TYPE,
     primaryType |-> "SafeOp",
     message |-> [safe |-> account.address,
                  callData |-> userOperation.callData,
                  nonce |-> userOperation.nonce,
                  preVerificationGas |-> userOperation.preVerificationGas,
                  verificationGasLimit |-> userOperation.verificationGasLimit,
                  callGasLimit |-> userOperation.callGasLimit,
                  maxFeePerGas |-> userOperation.maxFeePerGas,
                  maxPriorityFeePerGas |-> userOperation.maxPriorityFeePerGas,
                  entryPoint |-> account.entryPoint]]

\* what a method asks of the owner key or of the chain while it is suspended
Request(target, method, payload) == [target |-> target, method |-> method, payload |-> payload]

NoRequest == [none |-> TRUE]

NoResponse == [none |-> TRUE]

\* the signatures the owner key answers with, as hex digits: r and s, cut
\* short, then the recovery byte v in either convention
SignatureBodies == {<<10, 11>>}

OwnerVValues == {0, 1, 27, 28}

ByteToHex(v) == <<v \div 16, v % 16>>

OwnerSignatures == {body \o ByteToHex(v) : body \in SignatureBodies, v \in OwnerVValues}

\* the bytecode at the account address: none ("0x") or a deployed proxy
NoCode == <<>>

Bytecodes == {NoCode, <<15, 14>>}

\* what getBytecode answers for the code on chain: viem answers undefined for
\* no code, other readers answer "0x"
BytecodeAnswers(code) ==
    IF code = NoCode
    THEN {[defined |-> FALSE, hex |-> <<>>], [defined |-> TRUE, hex |-> <<>>]}
    ELSE {[defined |-> TRUE, hex |-> code]}

\* contractCode?.length ?? 0, the "0x" prefix counted
CodeLength(contractCode) ==
    IF contractCode.defined THEN 2 + Len(contractCode.hex) ELSE 0

EmptyHex == <<>>

Ready == ctor.pc = "ready"

Completed(c, response, result) ==
    [op |-> calls[c].op, arg |-> calls[c].arg, request |-> calls[c].request,
     response |-> response, result |-> result]

\* a method called on the ready adapter runs up to its await
Suspend(c, op, arg, request) ==
    /\ Ready
    /\ calls[c] = NoCall
    /\ calls' = [calls EXCEPT ![c] = [op |-> op, arg |-> arg, request |-> request]]
    /\ UNCHANGED <<client, gasError, norm, ctor, prev, bytecode, nonce, last, issued>>

\* signMessage hashes the wrapped message and awaits the owner key
SignMessageCall(c) ==
    \E message \in SignableMessages :
        LET messageHash == HashTypedData(SafeMessageTypedData(ctor.account, message))
        IN  Suspend(c, "signMessage", message,
                    Request("owner", "signMessage", [raw |-> ToBytes(messageHash)]))

\* the bug of one convention for both methods: signMessage normalizes its
\* signature as signTypedData does
SignMessageReturn_TypedDataMethod(c) ==
    /\ calls[c] # NoCall /\ calls[c].op = "signMessage"
    /\ \E signature \in OwnerSignatures :
        last' = Completed(c, signature, adjustVInSignature("eth_signTypedData", signature))
    /\ calls' = [calls EXCEPT ![c] = NoCall]
    /\ UNCHANGED <<client, gasError, norm, ctor, prev, bytecode, nonce, issued>>

SignMessageReturn(c) ==
    /\ calls[c] # NoCall /\ calls[c].op = "signMessage"
    /\ \E signature \in OwnerSignatures :
        last' = Completed(c, signature, adjustVInSignature("eth_sign", signature))
    /\ calls' = [calls EXCEPT ![c] = NoCall]
    /\ UNCHANGED <<client, gasError, norm, ctor, prev, bytecode, nonce, issued>>

\* signTypedData awaits the owner key's signature of the wrapped typed data
SignTypedDataCall(c) ==
    \E typedData \in TypedDataDefinitions :
        Suspend(c, "signTypedData", typedData,
                Request("owner", "signTypedData",
                        SafeMessageTypedData(ctor.account, typedData)))

SignTypedDataReturn(c) ==
    /\ calls[c] # NoCall /\ calls[c].op = "signTypedData"
    /\ \E signature \in OwnerSignatures :
        last' = Completed(c, signature, adjustVInSignature("eth_signTypedData", signature))
    /\ calls' = [calls EXCEPT ![c] = NoCall]
    /\ UNCHANGED <<client, gasError, norm, ctor, prev, bytecode, nonce, issued>>

\* the bug of signing with no await: signTransaction hands back a signature
SignTransaction_Signs ==
    /\ Ready
    /\ \E arg \in AnyArguments, signature \in OwnerSignatures :
        last' = [op |-> "signTransaction", arg |-> arg,
                 request |-> Request("owner", "signTransaction", arg),
                 response |-> signature, result |-> Returned(signature)]
    /\ UNCHANGED <<client, gasError, norm, ctor, prev, bytecode, nonce, calls, issued>>

\* signTransaction throws before anything is awaited
SignTransaction ==
    /\ Ready
    /\ \E arg \in AnyArguments :
        last' = [op |-> "signTransaction", arg |-> arg, request |-> NoRequest,
                 response |-> NoResponse,
                 result |-> Thrown("SignTransactionNotSupportedBySafeSmartAccount")]
    /\ UNCHANGED <<client, gasError, norm, ctor, prev, bytecode, nonce, calls, issued>>

\* getNonce awaits getAccountNonce(client, {sender, entryPoint})
GetNonceCall(c) ==
    Suspend(c, "getNonce", Undefined,
            Request("chain", "getAccountNonce",
                    [sender |-> ctor.account.address, entryPoint |-> ctor.account.entryPoint]))

\* the bug of a cached nonce: the nonce the last getNonce returned is kept
GetNonceReturn_Cached(c) ==
    /\ calls[c] # NoCall /\ calls[c].op = "getNonce"
    /\ last' = IF last.op = "getNonce"
               THEN Completed(c, last.response, last.result)
               ELSE Completed(c, nonce, Returned(nonce))
    /\ calls' = [calls EXCEPT ![c] = NoCall]
    /\ UNCHANGED <<client, gasError, norm, ctor, prev, bytecode, nonce, issued>>

GetNonceReturn(c) ==
    /\ calls[c] # NoCall /\ calls[c].op = "getNonce"
    /\ last' = Completed(c, nonce, Returned(nonce))
    /\ calls' = [calls EXCEPT ![c] = NoCall]
    /\ UNCHANGED <<client, gasError, norm, ctor, prev, bytecode, nonce, issued>>

\* signUserOperation awaits the owner key's signature of the SafeOp
SignUserOperationCall(c) ==
    \E userOperation \in UserOperations :
        Suspend(c, "signUserOperation", userOperation,
                Request("owner", "signTypedData",
                        SafeOpTypedData(ctor.account, userOperation)))

\* signatures.sort(...) of the one owner signature, then the concatenation
\* of "0x" and each data.slice(2)
ConcatSignatures(signatures) ==
    IF Len(signatures) = 1 THEN signatures[1].data ELSE EmptyHex

\* the bug of a normalized user-operation signature: v is adjusted as
\* signTypedData adjusts it
SignUserOperationReturn_Normalizes(c) ==
    /\ calls[c] # NoCall /\ calls[c].op = "signUserOperation"
    /\ \E signature \in OwnerSignatures :
        last' = Completed(c, signature, adjustVInSignature("eth_signTypedData", signature))
    /\ calls' = [calls EXCEPT ![c] = NoCall]
    /\ UNCHANGED <<client, gasError, norm, ctor, prev, bytecode, nonce, issued>>

SignUserOperationReturn(c) ==
    /\ calls[c] # NoCall /\ calls[c].op = "signUserOperation"
    /\ \E signature \in OwnerSignatures :
        LET signatures == << [signer |-> ctor.account.owner, data |-> signature] >>
        IN  last' = Completed(c, signature, Returned(ConcatSignatures(signatures)))
    /\ calls' = [calls EXCEPT ![c] = NoCall]
    /\ UNCHANGED <<client, gasError, norm, ctor, prev, bytecode, nonce, issued>>

\* getInitCode awaits getBytecode(client, {address})
GetInitCodeCall(c) ==
    Suspend(c, "getInitCode", Undefined,
            Request("chain", "getBytecode", [address |-> ctor.account.address]))

InitCodeOf(account) ==
    getAccountInitCode(account.owner, account.addModuleLibAddress,
                       account.safe4337ModuleAddress, account.safeProxyFactoryAddress,
                       account.safeSingletonAddress, account.saltNonce)

\* the bug of a cached InitCode: once built, it is returned again unread
GetInitCodeReturn_Cached(c) ==
    /\ calls[c] # NoCall /\ calls[c].op = "getInitCode"
    /\ \E contractCode \in BytecodeAnswers(bytecode) :
        LET result == IF CodeLength(contractCode) > 2 /\ ~issued
                      THEN Returned(EmptyHex)
                      ELSE InitCodeOf(ctor.account)
        IN  /\ last' = Completed(c, contractCode, result)
            /\ issued' = (issued \/ result # Returned(EmptyHex))
    /\ calls' = [calls EXCEPT ![c] = NoCall]
    /\ UNCHANGED <<client, gasError, norm, ctor, prev, bytecode, nonce>>

GetInitCodeReturn(c) ==
    /\ calls[c] # NoCall /\ calls[c].op = "getInitCode"
    /\ \E contractCode \in BytecodeAnswers(bytecode) :
        LET result == IF CodeLength(contractCode) > 2
                      THEN Returned(EmptyHex)
                      ELSE InitCodeOf(ctor.account)
        IN  /\ last' = Completed(c, contractCode, result)
            /\ issued' = (issued \/ result # Returned(EmptyHex))
    /\ calls' = [calls EXCEPT ![c] = NoCall]
    /\ UNCHANGED <<client, gasError, norm, ctor, prev, bytecode, nonce>>

\* the bug of a deploy call built after all
EncodeDeployCallData_Encodes ==
    /\ Ready
    /\ \E arg \in AnyArguments :
        last' = [op |-> "encodeDeployCallData", arg |-> arg, request |-> NoRequest,
                 response |-> NoResponse,
                 result |-> Returned(EncodeFunctionData("deploy", <<arg>>))]
    /\ UNCHANGED <<client, gasError, norm, ctor, prev, bytecode, nonce, calls, issued>>

\* encodeDeployCallData throws before anything is awaited
EncodeDeployCallData ==
    /\ Ready
    /\ \E arg \in AnyArguments :
        last' = [op |-> "encodeDeployCallData", arg |-> arg, request |-> NoRequest,
                 response |-> NoResponse,
                 result |-> Thrown("Safe account doesn't support account deployment")]
    /\ UNCHANGED <<client, gasError, norm, ctor, prev, bytecode, nonce, calls, issued>>

-----------------------------------------------------------------------------
(* The chain, which changes without the adapter *)

\* the account is deployed at its address, or its code goes away
ChainSetBytecode ==
    /\ \E code \in Bytecodes \ {bytecode} : bytecode' = code
    /\ UNCHANGED <<client, gasError, norm, ctor, prev, nonce, calls, last, issued>>

\* the entry point counts a user operation of the account
ChainBumpNonce ==
    /\ nonce < MaxNonce
    /\ nonce' = nonce + 1
    /\ UNCHANGED <<client, gasError, norm, ctor, prev, bytecode, calls, last, issued>>

-----------------------------------------------------------------------------
(* Construction on its own: privateKeyToSafeSmartAccount called again and  *)
(* again with any client and any parameters                                *)

InitCtor ==
    /\ norm = NormIdle
    /\ ctor = CtorIdle
    /\ prev = NoAdapter
    /\ bytecode = NoCode
    /\ nonce = 0
    /\ calls = CallsIdle
    /\ last = NoCall
    /\ issued = FALSE
    /\ client = ClientIdle
    /\ gasError = GasErrorIdle

NextCtor ==
    \/ CtorCall(Clients(ChainIds, ProxyCreationCodes),
                Parameters(PrivateKeys, EntryPoints, SaltNonces))
    \/ CtorResolve
    \/ CtorReturn
    \/ CtorAgain

SpecCtor == InitCtor /\ [][NextCtor]_vars

-----------------------------------------------------------------------------
(* One adapter, constructed once (on chain 1, which the table lacks,       *)
(* construction fails), its methods called concurrently while the chain    *)
(* changes                                                                 *)

TheEntryPoint == Address("0x5FF137D4b0FDCD49DcA30c7CF57E578a026d2789")

AdapterClients == Clients({5, 1}, {"0x608060405234"})

\* the addresses of the table, none overridden
AdapterParameters ==
    {p \in Parameters({"0xkey1"}, {TheEntryPoint}, {1}) :
        \A f \in {"addModuleLibAddress", "safe4337ModuleAddress",
                  "safeProxyFactoryAddress", "safeSingletonAddress"} : p[f] = Undefined}

Init == InitCtor

Next ==
    \/ CtorCall(AdapterClients, AdapterParameters)
    \/ CtorResolve
    \/ CtorReturn
    \/ \E c \in 1..MaxCalls : SignMessageCall(c)
    \/ \E c \in 1..MaxCalls : SignMessageReturn(c)
    \/ \E c \in 1..MaxCalls : SignTypedDataCall(c)
    \/ \E c \in 1..MaxCalls : SignTypedDataReturn(c)
    \/ SignTransaction
    \/ \E c \in 1..MaxCalls : GetNonceCall(c)
    \/ \E c \in 1..MaxCalls : GetNonceReturn(c)
    \/ \E c \in 1..MaxCalls : SignUserOperationCall(c)
    \/ \E c \in 1..MaxCalls : SignUserOperationReturn(c)
    \/ \E c \in 1..MaxCalls : GetInitCodeCall(c)
    \/ \E c \in 1..MaxCalls : GetInitCodeReturn(c)
    \/ EncodeDeployCallData
    \/ ChainSetBytecode
    \/ ChainBumpNonce

Spec == Init /\ [][Next]_vars

-----------------------------------------------------------------------------
(* One adapter for every choice of overrides, its methods called one at a  *)
(* time while the chain changes                                            *)

ConfigClients == Clients({5, 1}, {"0x608060405234"})

ConfigParameters == Parameters({"0xkey1"}, {TheEntryPoint}, SaltNonces)

NextConfigs ==
    \/ CtorCall(ConfigClients, ConfigParameters)
    \/ CtorResolve
    \/ CtorReturn
    \/ SignMessageCall(1)
    \/ SignMessageReturn(1)
    \/ SignTypedDataCall(1)
    \/ SignTypedDataReturn(1)
    \/ SignTransaction
    \/ GetNonceCall(1)
    \/ GetNonceReturn(1)
    \/ SignUserOperationCall(1)
    \/ SignUserOperationReturn(1)
    \/ GetInitCodeCall(1)
    \/ GetInitCodeReturn(1)
    \/ EncodeDeployCallData
    \/ ChainSetBytecode
    \/ ChainBumpNonce

SpecConfigs == InitCtor /\ [][NextConfigs]_vars

-----------------------------------------------------------------------------
\* the construction running or finished needs a table entry that is missing
MissingEntry ==
    /\ ctor.pc # "idle"
    /\ SAFE_ADDRESSES_MAP(ctor.params.safeVersion, ToString10(ctor.client.chainId)) = Undefined
    /\ \E f \in {"addModuleLibAddress", "safe4337ModuleAddress",
                 "safeProxyFactoryAddress", "safeSingletonAddress"} :
        ctor.params[f] = Undefined

(* C4, as claimed: a construction that fails for want of a table entry has *)
(* attempted no chain I/O at all, the chain-id read included.              *)
UnknownNetworkBeforeAnyIO ==
    (ctor.pc = "failed" /\ MissingEntry) => ctor.io = <<>>

(* C4, amended: with no table entry for the version and the chain id the   *)
(* client answered and an override missing, construction fails once the    *)
(* chain id is known: the chain-id read is its only chain I/O, and no      *)
(* proxyCreationCode read follows; construction fails in no other case.    *)
UnknownNetworkAfterChainIdOnly ==
    /\ ctor.pc = "failed" => (MissingEntry /\ ctor.io = <<"getChainId">>
                              /\ ctor.error = "TypeError" /\ ctor.account = NoAdapter)
    /\ (MissingEntry /\ ctor.pc # "getChainId") => ctor.pc = "failed"

\* chain id 1 has no entry and only the factory override was given
UnknownNetworkWitness ==
    /\ ctor.pc = "failed"
    /\ ctor.client.chainId = 1
    /\ ctor.params.safeProxyFactoryAddress # Undefined
    /\ ctor.params.safeSingletonAddress = Undefined
    /\ ctor.io = <<"getChainId">>

SameDerivationInputs(d, e) ==
    \A f \in DOMAIN d \ {"address"} : d[f] = e[f]

(* C7: two constructions that resolve to the same owner, module-lib,       *)
(* module, factory and singleton addresses and saltNonce and read the same *)
(* proxyCreationCode derive the same address, whatever else differs        *)
(* between them (entry point, chain, overrides or table).                  *)
DerivationDeterministic ==
    (ctor.pc = "ready" /\ prev # NoAdapter /\ SameDerivationInputs(Derivation(ctor), prev))
        => ctor.account.address = prev.address

\* the same configuration was constructed twice, for two entry points and on
\* two chains, and another configuration got another address
DerivationWitness ==
    /\ ctor.pc = "ready" /\ prev # NoAdapter
    /\ SameDerivationInputs(Derivation(ctor), prev)
    /\ ctor.account.address = prev.address
    /\ ctor.client.chainId = 5
    /\ ctor.params.safe4337ModuleAddress # Undefined
    /\ ctor.account.saltNonce = 1

-----------------------------------------------------------------------------
\* the call in slot c is a call of op that completes in this step
Completes(c, op) == calls[c].op = op /\ calls'[c] = NoCall

(* C1: every getInitCode call that completes has read the bytecode the     *)
(* chain holds at that moment, and its result is decided by that read      *)
(* alone: "0x" when the answer is a hex string longer than 2, otherwise a  *)
(* nonempty InitCode that begins with the factory address; whether an      *)
(* earlier call returned an InitCode plays no part.                        *)
InitCodeFollowsFreshRead ==
    [][\A c \in 1..MaxCalls :
        Completes(c, "getInitCode") =>
            /\ last'.op = "getInitCode"
            /\ last'.response \in BytecodeAnswers(bytecode)
            /\ IF last'.response.defined /\ 2 + Len(last'.response.hex) > 2
               THEN last'.result = Returned(EmptyHex)
               ELSE /\ last'.result.ok
                    /\ last'.result.value # EmptyHex
                    /\ last'.result.value[1] = ctor.account.safeProxyFactoryAddress]_vars

\* a call returned "0x" for the deployed account after an earlier call had
\* returned an InitCode
InitCodeWitness ==
    /\ last.op = "getInitCode"
    /\ last.result = Returned(EmptyHex)
    /\ issued
    /\ bytecode # NoCode

(* C5: signTransaction throws for any argument, deployed or not, without   *)
(* asking the owner key or the chain for anything.                         *)
SignTransactionUnsupported ==
    last.op = "signTransaction" =>
        /\ last.result = Thrown("SignTransactionNotSupportedBySafeSmartAccount")
        /\ last.request = NoRequest
        /\ last.response = NoResponse

\* signTransaction() threw on the deployed account
SignTransactionWitness ==
    /\ last.op = "signTransaction"
    /\ last.arg = Undefined
    /\ ~last.result.ok
    /\ bytecode # NoCode

(* C6: encodeDeployCallData throws for any argument, deployed or not, and  *)
(* returns no call data.                                                   *)
EncodeDeployCallDataUnsupported ==
    last.op = "encodeDeployCallData" =>
        /\ ~last.result.ok
        /\ last.result.error = "Safe account doesn't support account deployment"
        /\ last.result.value = <<>>

\* encodeDeployCallData threw for an argument on the undeployed account
EncodeDeployCallDataWitness ==
    /\ last.op = "encodeDeployCallData"
    /\ last.arg # Undefined
    /\ ~last.result.ok
    /\ bytecode = NoCode

(* C8: the InitCode getInitCode returns carries the initializer that was   *)
(* hashed into the CREATE2 salt of the adapter's address, and the factory, *)
(* singleton and saltNonce of the derivation: the CREATE2 address computed *)
(* from the InitCode's own fields is the adapter's address.                *)
InitCodeMatchesDerivation ==
    (last.op = "getInitCode" /\ last.result.ok /\ last.result.value # EmptyHex) =>
        LET initCode == last.result.value
            callData == initCode[2]
            hashedInitializer ==
                ctor.account.address.salt.keccak256.packed[1].keccak256.packed[1]
        IN  /\ callData.functionName = "createProxyWithNonce"
            /\ callData.args[2] = hashedInitializer
            /\ Create2ProxyAddress(ctor.client.proxyCreationCode, initCode[1],
                   callData.args[1], callData.args[2], callData.args[3])
               = ctor.account.address

\* an InitCode was returned for saltNonce 1 and an overridden module
InitCodeMatchesWitness ==
    /\ last.op = "getInitCode" /\ last.result.ok /\ last.result.value # EmptyHex
    /\ ctor.account.saltNonce = 1
    /\ ctor.params.safe4337ModuleAddress # Undefined
    /\ ctor.params.safeSingletonAddress = Undefined

AloneRequest(account, op, arg) ==
    CASE op = "signMessage" ->
            Request("owner", "signMessage",
                [raw |-> ToBytes(HashTypedData(SafeMessageTypedData(account, arg)))])
      [] op = "signTypedData" ->
            Request("owner", "signTypedData", SafeMessageTypedData(account, arg))
      [] op = "signUserOperation" ->
            Request("owner", "signTypedData", SafeOpTypedData(account, arg))
      [] op = "getNonce" ->
            Request("chain", "getAccountNonce",
                [sender |-> account.address, entryPoint |-> account.entryPoint])
      [] op = "getInitCode" ->
            Request("chain", "getBytecode", [address |-> account.address])

AloneResult(account, op, response) ==
    CASE op = "signMessage" -> adjustVInSignature("eth_sign", response)
      [] op = "signTypedData" -> adjustVInSignature("eth_signTypedData", response)
      [] op = "signUserOperation" -> Returned(response)
      [] op = "getNonce" -> Returned(response)
      [] op = "getInitCode" ->
            IF CodeLength(response) > 2 THEN Returned(EmptyHex) ELSE InitCodeOf(account)

Suspending == {"signMessage", "signTypedData", "signUserOperation", "getNonce", "getInitCode"}

(* C9: calls in flight together do not affect one another: each asks what  *)
(* it would ask alone and, given the response it got, returns what it      *)
(* would return alone; no call changes the constructed adapter; a getNonce *)
(* call returns the chain's nonce of the moment it completes.              *)
CallsIndependent ==
    /\ [](\A c \in 1..MaxCalls : calls[c] # NoCall =>
            calls[c].request = AloneRequest(ctor.account, calls[c].op, calls[c].arg))
    /\ [](last.op \in Suspending =>
            /\ last.request = AloneRequest(ctor.account, last.op, last.arg)
            /\ last.result = AloneResult(ctor.account, last.op, last.response))
    /\ [][Ready => ctor' = ctor]_vars
    /\ [][\A c \in 1..MaxCalls : Completes(c, "getNonce") =>
            (last'.op = "getNonce" /\ last'.response = nonce
             /\ last'.result = Returned(nonce))]_vars

\* a getNonce call returned the bumped nonce while a second getNonce call and
\* a signUserOperation call were in flight
CallsIndependentWitness ==
    /\ last.op = "getNonce" /\ last.result = Returned(1)
    /\ \E c, d \in 1..MaxCalls :
        calls[c].op = "getNonce" /\ calls[d].op = "signUserOperation"

Expected(parameter, entry) ==
    IF ctor.params[parameter] # Undefined
    THEN ctor.params[parameter]
    ELSE SafeAddresses[entry]

ExpectedInitializer ==
    getInitializerCode(PrivateKeyToAddress(ctor.params.privateKey),
        Expected("addModuleLibAddress", "ADD_MODULES_LIB_ADDRESS"),
        Expected("safe4337ModuleAddress", "SAFE_4337_MODULE_ADDRESS"))

(* C10: each of the four addresses the adapter holds is the caller's       *)
(* override when one is given and the table entry otherwise, each on its   *)
(* own; the address is derived from these values, signUserOperation signs  *)
(* under the resolved module and the InitCode names the resolved factory,  *)
(* singleton, module lib and module.                                       *)
OverrideTakesPrecedence ==
    ctor.pc \in {"readContract", "ready"} =>
        /\ ctor.account.addModuleLibAddress
               = Expected("addModuleLibAddress", "ADD_MODULES_LIB_ADDRESS")
        /\ ctor.account.safe4337ModuleAddress
               = Expected("safe4337ModuleAddress", "SAFE_4337_MODULE_ADDRESS")
        /\ ctor.account.safeProxyFactoryAddress
               = Expected("safeProxyFactoryAddress", "SAFE_PROXY_FACTORY_ADDRESS")
        /\ ctor.account.safeSingletonAddress
               = Expected("safeSingletonAddress", "SAFE_SINGLETON_ADDRESS")
        /\ ctor.pc = "ready" =>
               ctor.account.address =
                   Create2ProxyAddress(ctor.client.proxyCreationCode,
                       Expected("safeProxyFactoryAddress", "SAFE_PROXY_FACTORY_ADDRESS"),
                       Expected("safeSingletonAddress", "SAFE_SINGLETON_ADDRESS"),
                       ExpectedInitializer, ctor.account.saltNonce)
        /\ last.op = "signUserOperation" =>
               last.request.payload.domain.verifyingContract
                   = Expected("safe4337ModuleAddress", "SAFE_4337_MODULE_ADDRESS")
        /\ (last.op = "getInitCode" /\ last.result.ok /\ last.result.value # EmptyHex) =>
               /\ last.result.value[1]
                      = Expected("safeProxyFactoryAddress", "SAFE_PROXY_FACTORY_ADDRESS")
               /\ last.result.value[2].args[1]
                      = Expected("safeSingletonAddress", "SAFE_SINGLETON_ADDRESS")
               /\ last.result.value[2].args[2] = ExpectedInitializer

\* the module was overridden and the factory was not, on a chain of the
\* table, and signUserOperation signed under the override
OverrideWitness ==
    /\ ctor.pc = "ready"
    /\ ctor.client.chainId = 5
    /\ ctor.params.safe4337ModuleAddress = Address("0xM0D")
    /\ ctor.params.safeProxyFactoryAddress = Undefined
    /\ ctor.account.safeProxyFactoryAddress = SafeAddresses.SAFE_PROXY_FACTORY_ADDRESS
    /\ last.op = "signUserOperation"
    /\ last.request.payload.domain.verifyingContract = Address("0xM0D")

-----------------------------------------------------------------------------
\* the typed data whose signature the completed call asked of the owner key:
\* signMessage hands the owner key the bytes of its hash, the others itself
SignedTypedData ==
    IF last.op = "signMessage"
    THEN last.request.payload.raw.bytes.hashTypedData
    ELSE last.request.payload

(* C12: the typed data signUserOperation has signed names the resolved     *)
(* 4337 module as verifyingContract, the typed data signMessage and        *)
(* signTypedData have signed names the account's counterfactual address;   *)
(* all three carry the chain id the client answered at construction; and   *)
(* the SafeOp message binds safe to the account address, entryPoint to the *)
(* configured entry point, and copies callData, nonce and the gas and fee  *)
(* fields of the user operation unchanged.                                 *)
DomainSeparation ==
    /\ last.op \in {"signMessage", "signTypedData"} =>
        /\ SignedTypedData.domain.verifyingContract = ctor.account.address
        /\ SignedTypedData.domain.chainId = ctor.client.chainId
        /\ SignedTypedData.primaryType = "SafeMessage"
    /\ last.op = "signUserOperation" =>
        /\ SignedTypedData.domain.verifyingContract
              = Expected("safe4337ModuleAddress", "SAFE_4337_MODULE_ADDRESS")
        /\ SignedTypedData.domain.chainId = ctor.client.chainId
        /\ SignedTypedData.primaryType = "SafeOp"
        /\ SignedTypedData.types = EIP712_SAFE_OPERATION_TYPE
        /\ SignedTypedData.message.safe = ctor.account.address
        /\ SignedTypedData.message.entryPoint = ctor.params.entryPoint
        /\ \A f \in {"callData", "nonce", "preVerificationGas", "verificationGasLimit",
                      "callGasLimit", "maxFeePerGas", "maxPriorityFeePerGas"} :
            SignedTypedData.message[f] = last.arg[f]

\* a user operation has been signed by an account whose module is the
\* table's, which is not the account's own address
DomainSeparationWitness ==
    /\ last.op = "signUserOperation"
    /\ ctor.params.safe4337ModuleAddress = Undefined
    /\ last.request.payload.domain.verifyingContract # ctor.account.address
    /\ last.arg.callData = "0xa9059cbb"

\* the recovery byte the owner key emitted in the completed call
RawV == ParseLastByte(last.response)

(* C14: whichever of 0, 1, 27, 28 the owner key emits as v, the signature  *)
(* signMessage returns ends in byte 31 or 32 and the one signTypedData     *)
(* returns ends in byte 27 or 28, the rest of the signature unchanged;     *)
(* neither returns a signature ending in 0 or 1.                           *)
AdapterVConvention ==
    last.op \in {"signMessage", "signTypedData"} =>
        /\ last.result.ok
        /\ SliceOffLastByte(last.result.value) = SliceOffLastByte(last.response)
        /\ ParseLastByte(last.result.value) \notin {0, 1}
        /\ last.op = "signMessage" =>
            /\ ParseLastByte(last.result.value) \in {31, 32}
            /\ ParseLastByte(last.result.value) = 31 + (RawV % 27)
        /\ last.op = "signTypedData" =>
            /\ ParseLastByte(last.result.value) \in {27, 28}
            /\ ParseLastByte(last.result.value) = 27 + (RawV % 27)

\* signMessage has returned after the owner key emitted v = 0
AdapterVConventionWitness ==
    /\ last.op = "signMessage"
    /\ RawV = 0
    /\ ParseLastByte(last.result.value) = 31

(* C15: signUserOperation returns the owner key's signature bytes exactly  *)
(* as emitted, v not normalized: the result is the emitted signature, its  *)
(* final byte the raw v, 0 and 1 included; and the user operation it was   *)
(* handed is as it was, its signature field still empty.                   *)
UserOperationSignatureRaw ==
    last.op = "signUserOperation" =>
        /\ last.result = Returned(last.response)
        /\ ParseLastByte(last.result.value) = RawV
        /\ last.arg \in UserOperations
        /\ last.arg.signature = "0x"

\* signUserOperation has returned a signature ending in the raw v = 1
UserOperationSignatureRawWitness ==
    /\ last.op = "signUserOperation"
    /\ last.result.ok
    /\ RawV = 1
    /\ ParseLastByte(last.result.value) = 1

-----------------------------------------------------------------------------
(* The normalizer on its own: any method, any signature string *)

InitNorm ==
    /\ \E m \in SigningMethods, s \in HexStrings(MaxSigLen) :
        norm = [method |-> m, signature |-> s, done |-> FALSE, out |-> NotRun]
    /\ ctor = CtorIdle
    /\ prev = NoAdapter
    /\ bytecode = NoCode
    /\ nonce = 0
    /\ calls = CallsIdle
    /\ last = NoCall
    /\ issued = FALSE
    /\ client = ClientIdle
    /\ gasError = GasErrorIdle

Normalize ==
    /\ ~norm.done
    /\ norm' = [norm EXCEPT !.done = TRUE,
                            !.out = adjustVInSignature(norm.method, norm.signature)]
    /\ UNCHANGED adapterVars
    /\ UNCHANGED <<client, gasError>>

NextNorm == Normalize

SpecNorm == InitNorm /\ [][NextNorm]_vars

-----------------------------------------------------------------------------
ExpectedV(method, v) ==
    CASE method = "eth_sign" /\ v \in {0, 1} -> v + 27 + 4
      [] method = "eth_sign" /\ v \in {27, 28} -> v + 4
      [] method = "eth_signTypedData" /\ v \in {0, 1} -> v + 27
      [] method = "eth_signTypedData" /\ v \in {27, 28} -> v

(* C2: for every accepted signature the normalizer replaces only the last  *)
(* byte: eth_sign maps v in {0,1} to v+27+4 and v in {27,28} to v+4,       *)
(* eth_signTypedData maps v in {0,1} to v+27 and leaves v in {27,28}; the  *)
(* digits before the last byte and the length of the string are unchanged. *)
VNormalization ==
    (norm.done /\ norm.out.ok) =>
        LET in == norm.signature
            out == norm.out.value
        IN  /\ Len(out) = Len(in)
            /\ SliceOffLastByte(out) = SliceOffLastByte(in)
            /\ ParseLastByte(in) \in {0, 1, 27, 28}
            /\ ParseLastByte(out) = ExpectedV(norm.method, ParseLastByte(in))

\* a signature with a digit before its last byte and v = 1 went through eth_sign
VNormalizationWitness ==
    /\ norm.done /\ norm.out.ok
    /\ norm.method = "eth_sign"
    /\ norm.signature = <<10, 0, 1>>
    /\ norm.out.value = <<10, 2, 0>>

(* C3: the normalizer throws exactly when the final byte is not one of     *)
(* 0, 1, 27, 28, whatever the method, and then returns no signature.       *)
InvalidVRejected ==
    norm.done =>
        /\ norm.out.ok <=> ParseLastByte(norm.signature) \in {0, 1, 27, 28}
        /\ ~norm.out.ok => norm.out = Thrown("Invalid signature")

\* v = 2 was rejected
InvalidVRejectedWitness ==
    /\ norm.done
    /\ ParseLastByte(norm.signature) = 2
    /\ norm.out = Thrown("Invalid signature")

-----------------------------------------------------------------------------
(* createSmartAccountClient                                                *)
(* (src/packages/permissionless/clients/createSmartAccountClient.ts).      *)
(*                                                                         *)
(* A JavaScript object is modelled by a function from the names of the     *)
(* properties it has; a property that is absent reads as undefined.        *)

\* {...object, name: value}
Spread(object, name, value) ==
    [p \in DOMAIN object \cup {name} |-> IF p = name THEN value ELSE object[p]]

\* const {name = default} = object
OrDefault(object, name, default) ==
    IF name \in DOMAIN object THEN object[name] ELSE default

\* an object that has, of the optional properties, exactly those of present
Pick(object, present) == [p \in present |-> object[p]]

RetryCounts == 0..MaxRetryCount

\* what callers hand to createSmartAccountClient: the transport always, the
\* key, the name and a retry count of their own or not
ClientParameters ==
    {Pick([transport |-> "transport", key |-> "custom", name |-> "My Client",
           retryCount |-> r], {"transport"} \cup present) :
        r \in RetryCounts, present \in SUBSET {"key", "name", "retryCount"}}

\* what createClient hands to the transport it was configured with: the
\* chain or none, the polling interval, a retry count or none
TransportOpts ==
    {Pick([chain |-> 5, pollingInterval |-> 4000, retryCount |-> r],
          {"pollingInterval"} \cup present) :
        r \in RetryCounts, present \in SUBSET {"chain", "retryCount"}}

\* createSmartAccountClient up to the call of createClient: the defaults of
\* key and name, and the configuration createClient receives
CreateSmartAccountClient(parameters) ==
    /\ client.pc = "idle"
    /\ LET key == OrDefault(parameters, "key", "Account")
           name == OrDefault(parameters, "name", "Smart Account Client")
           config == Spread(Spread(Spread(Spread(parameters, "key", key),
                                          "name", name),
                                   "transport", "(opts) => transport({...opts, retryCount: 0})"),
                            "type", "smartAccountClient")
       IN  client' = [pc |-> "createClient", parameters |-> parameters, config |-> config]
    /\ UNCHANGED <<gasError, norm, ctor, prev, bytecode, nonce, calls, last, issued>>

\* the bug of spreading in the wrong order: the options' own retry count wins
TransportInvoked_OptsLast(opts) ==
    /\ client.pc = "createClient"
    /\ client' = [pc |-> "created", parameters |-> client.parameters,
                  config |-> client.config, opts |-> opts,
                  transportCalledWith |-> IF "retryCount" \in DOMAIN opts
                                          THEN opts
                                          ELSE Spread(opts, "retryCount", 0)]
    /\ UNCHANGED <<gasError, norm, ctor, prev, bytecode, nonce, calls, last, issued>>

\* createClient calls the transport of its configuration, the wrapper, which
\* calls the caller's transport; the client is then extended and returned
TransportInvoked(opts) ==
    /\ client.pc = "createClient"
    /\ client' = [pc |-> "created", parameters |-> client.parameters,
                  config |-> client.config, opts |-> opts,
                  transportCalledWith |-> Spread(opts, "retryCount", 0)]
    /\ UNCHANGED <<gasError, norm, ctor, prev, bytecode, nonce, calls, last, issued>>

NextClient ==
    \/ \E parameters \in ClientParameters : CreateSmartAccountClient(parameters)
    \/ \E opts \in TransportOpts : TransportInvoked(opts)

SpecClient == InitCtor /\ [][NextClient]_vars

(* C11: the caller's transport is invoked with retry count 0 whatever      *)
(* retry count the caller's parameters or the options createClient hands   *)
(* over carry, every other option handed over as it was; the client layer  *)
(* asks the transport for no retry.                                        *)
TransportRetryCountZero ==
    client.pc = "created" =>
        /\ "retryCount" \in DOMAIN client.transportCalledWith
        /\ client.transportCalledWith.retryCount = 0
        /\ DOMAIN client.transportCalledWith = DOMAIN client.opts \cup {"retryCount"}
        /\ \A p \in DOMAIN client.opts \ {"retryCount"} :
            client.transportCalledWith[p] = client.opts[p]

\* a client has been created whose caller and whose options both carried a
\* retry count above 0
TransportRetryCountWitness ==
    /\ client.pc = "created"
    /\ "retryCount" \in DOMAIN client.parameters /\ client.parameters.retryCount = 2
    /\ "retryCount" \in DOMAIN client.opts /\ client.opts.retryCount = 3
    /\ client.transportCalledWith.retryCount = 0

-----------------------------------------------------------------------------
(* EstimateUserOperationGasError                                           *)
(* (src/packages/permissionless/errors/estimateUserOperationGas.ts).       *)
(*                                                                         *)
(* A line of an error's meta messages is modelled by a record holding its  *)
(* text; an optional value by a record that says whether it is present.    *)

Text(string) == [text |-> string]

\* Boolean(line): the empty string is the one falsy string
Boolean(line) == line # Text("")

RECURSIVE SeqsUpTo(_, _)
\* the sequences over a set no longer than n
SeqsUpTo(set, n) ==
    IF n = 0 THEN {<<>>}
    ELSE LET shorter == SeqsUpTo(set, n - 1)
         IN  shorter \cup {Append(s, x) : s \in {t \in shorter : Len(t) = n - 1}, x \in set}

\* the lines upstream errors carry as meta messages
MetaLines == {Text(""), Text(" "), Text("Details: execution reverted")}

\* the upstream failures: viem BaseErrors with their short message, with
\* meta messages or with none, with a documentation path or with none
Causes ==
    [name : {"RpcRequestError"},
     shortMessage : {"RPC Request failed.", "An unknown RPC error occurred."},
     metaMessages : {Absent} \cup {Present(m) : m \in SeqsUpTo(MetaLines, MaxMetaMessages)},
     docsPath : {NoDocsPath, Present("/docs/rpc")}]

DocsPaths == {NoDocsPath, Present("/docs/bundler/estimateUserOperationGas")}

\* prettyArgs: the dump prettyPrint makes of the twelve fields, a nonempty
\* string that differs when a field differs
prettyArgs(userOperation, entryPoint) ==
    [prettyPrint |->
        [sender |-> userOperation.sender, nonce |-> userOperation.nonce,
         initCode |-> userOperation.initCode, callData |-> userOperation.callData,
         callGasLimit |-> userOperation.callGasLimit,
         verificationGasLimit |-> userOperation.verificationGasLimit,
         preVerificationGas |-> userOperation.preVerificationGas,
         maxFeePerGas |-> userOperation.maxFeePerGas,
         maxPriorityFeePerGas |-> userOperation.maxPriorityFeePerGas,
         paymasterAndData |-> userOperation.paymasterAndData,
         signature |-> userOperation.signature,
         entryPoint |-> entryPoint]]

\* viem's BaseError as the subclass constructs it: the short message and
\* the meta messages it is given, the cause, the documentation path given
\* or else the cause's
BaseError(shortMessage, cause, docsPath, metaMessages) ==
    [name |-> "EstimateUserOperationGasError",
     shortMessage |-> shortMessage,
     metaMessages |-> Present(metaMessages),
     docsPath |-> IF docsPath.present THEN docsPath ELSE cause.docsPath,
     cause |-> cause]

\* the bug of an enrichment that keeps the dump only: the cause's meta
\* messages are left out
EstimateUserOperationGasError_DumpOnly(cause, userOperation, entryPoint, docsPath) ==
    BaseError(cause.shortMessage, cause, docsPath,
              SelectSeq(<<Text("Estimate Gas Arguments:"),
                          prettyArgs(userOperation, entryPoint)>>, Boolean))

EstimateUserOperationGasError(cause, userOperation, entryPoint, docsPath) ==
    LET own == IF cause.metaMessages.present
               THEN cause.metaMessages.value \o <<Text(" ")>>
               ELSE <<>>
    IN  BaseError(cause.shortMessage, cause, docsPath,
                  SelectSeq(own \o <<Text("Estimate Gas Arguments:"),
                                     prettyArgs(userOperation, entryPoint)>>, Boolean))

\* any upstream failure of any user operation's estimation
InitGasError ==
    /\ \E cause \in Causes, userOperation \in UserOperations,
          entryPoint \in EntryPoints, docsPath \in DocsPaths :
        gasError = [cause |-> cause, userOperation |-> userOperation,
                    entryPoint |-> entryPoint, docsPath |-> docsPath,
                    done |-> FALSE, error |-> NoError]
    /\ client = ClientIdle
    /\ norm = NormIdle
    /\ ctor = CtorIdle
    /\ prev = NoAdapter
    /\ bytecode = NoCode
    /\ nonce = 0
    /\ calls = CallsIdle
    /\ last = NoCall
    /\ issued = FALSE

\* new EstimateUserOperationGasError(cause, {userOperation, entryPoint, docsPath})
Enrich ==
    /\ ~gasError.done
    /\ gasError' = [gasError EXCEPT
                      !.done = TRUE,
                      !.error = EstimateUserOperationGasError(gasError.cause,
                                    gasError.userOperation, gasError.entryPoint,
                                    gasError.docsPath)]
    /\ UNCHANGED <<client, norm, ctor, prev, bytecode, nonce, calls, last, issued>>

NextGasError == Enrich

SpecGasError == InitGasError /\ [][NextGasError]_vars

\* the lines the enrichment appends after the cause's own
AppendedLines ==
    <<Text("Estimate Gas Arguments:"),
      prettyArgs(gasError.userOperation, gasError.entryPoint)>>

\* s begins with t
IsPrefix(t, s) == Len(t) <= Len(s) /\ SubSeq(s, 1, Len(t)) = t

(* C13, as claimed: the enriched error's cause is the original error, its  *)
(* short message the cause's, and the cause's meta messages, when it has   *)
(* any, are all retained, as they were, ahead of the appended dump.        *)
CauseMetaMessagesRetained ==
    gasError.done =>
        /\ gasError.error.cause = gasError.cause
        /\ gasError.error.shortMessage = gasError.cause.shortMessage
        /\ gasError.cause.metaMessages.present =>
            IsPrefix(gasError.cause.metaMessages.value,
                     gasError.error.metaMessages.value)

(* C13, amended: the enriched error's cause is the original error and its *)
(* short message the cause's; its meta messages are the cause's own that   *)
(* are not the empty string, in their order, and a " " separator after     *)
(* them (both only for a cause that has meta messages, be it none at all), *)
(* then "Estimate Gas Arguments:" and the user-operation field dump.       *)
CauseKeptNonEmptyMetaMessagesRetained ==
    gasError.done =>
        /\ gasError.error.cause = gasError.cause
        /\ gasError.error.shortMessage = gasError.cause.shortMessage
        /\ gasError.error.metaMessages.value =
             (IF gasError.cause.metaMessages.present
              THEN SelectSeq(gasError.cause.metaMessages.value,
                             LAMBDA line : line.text # "") \o <<Text(" ")>>
              ELSE <<>>) \o AppendedLines

\* an error has been enriched whose cause carried two meta messages, the
\* first of them empty: three lines follow the one that is kept
EnrichedWitness ==
    /\ gasError.done
    /\ gasError.error # NoError
    /\ gasError.cause.metaMessages.present
    /\ gasError.cause.metaMessages.value = <<Text(""), Text("Details: execution reverted")>>
    /\ Len(gasError.error.metaMessages.value) = 4

====
